---- MODULE Spec2Model ----
(***************************************************************************)
(* Model of lib-utils/gitlab.py: a command line client that either creates *)
(* a merge request (POST) or checks branch inclusion (compare GET).        *)
(* One run of the process is one behaviour: the parsed command line is     *)
(* fixed by Init, the server's answer is drawn when urlopen is called.     *)
(***************************************************************************)
EXTENDS Integers, Sequences, FiniteSets, TLC

VARIABLES args, pc, response, httpCalls, printed, retval, exitCode, exitedIn, traceback

vars == <<args, pc, response, httpCalls, printed, retval, exitCode, exitedIn, traceback>>

(* ------------------------------ bounds --------------------------------- *)
MaxArgs == 2
MaxBodyLen == 5
MaxPostBodyLen == 1

Branches == {"feature", "main"}
Statuses == {200, 201, 404, 500}
Tokens == {"{", "}", ":", "null", "\"commit\""}

NoExit == -1

SeqsUpTo(S, n) == UNION {[1..k -> S] : k \in 0..n}

Bodies == SeqsUpTo(Tokens, MaxBodyLen)

(* ------------------------- python value helpers ------------------------ *)
None == [tag |-> "None", val |-> 0]
Int_(n) == [tag |-> "int", val |-> n]
Bool_(b) == [tag |-> "bool", val |-> IF b THEN 1 ELSE 0]
Unset == [tag |-> "unset", val |-> 0]

Msg(text, code, a, b) == [text |-> text, code |-> code, a |-> a, b |-> b]
P(text) == Msg(text, 0, "", "")

(* an optional list of values as argparse leaves it for nargs='*' *)
Absent == [given |-> FALSE, vals |-> <<>>]
Given(vs) == [given |-> TRUE, vals |-> vs]
OptLists == {Absent} \cup {Given(vs) : vs \in SeqsUpTo(Branches, MaxArgs)}

(* ------------------------------ json.loads ----------------------------- *)
IsString(t) == t = "\"commit\""
Tok(toks, i) == IF i \in 1..Len(toks) THEN toks[i] ELSE "<eof>"
Fail == [ok |-> FALSE, kind |-> "error", key |-> "", isnull |-> FALSE, next |-> 0]

RECURSIVE ParseValue(_, _)
ParseValue(toks, i) ==
    IF Tok(toks, i) = "null"
    THEN [ok |-> TRUE, kind |-> "null", key |-> "", isnull |-> FALSE, next |-> i + 1]
    ELSE IF IsString(Tok(toks, i))
    THEN [ok |-> TRUE, kind |-> "str", key |-> "", isnull |-> FALSE, next |-> i + 1]
    ELSE IF Tok(toks, i) = "{"
    THEN IF Tok(toks, i + 1) = "}"
         THEN [ok |-> TRUE, kind |-> "dict", key |-> "", isnull |-> FALSE, next |-> i + 2]
         ELSE IF IsString(Tok(toks, i + 1)) /\ Tok(toks, i + 2) = ":"
         THEN LET v == ParseValue(toks, i + 3) IN
              IF v.ok /\ Tok(toks, v.next) = "}"
              THEN [ok |-> TRUE, kind |-> "dict", key |-> Tok(toks, i + 1),
                    isnull |-> (v.kind = "null"), next |-> v.next + 1]
              ELSE Fail
         ELSE Fail
    ELSE Fail

json_loads(body) ==
    LET v == ParseValue(body, 1) IN
    IF v.ok /\ v.next = Len(body) + 1 THEN v ELSE Fail

(* ------------------------- what the server may answer ------------------ *)
Unreachable == [kind |-> "unreachable", status |-> 0, body |-> <<>>]
NoResponse == [kind |-> "none", status |-> 0, body |-> <<>>]
Responses ==
    {[kind |-> "http", status |-> s, body |-> b] : s \in Statuses, b \in Bodies}
        \cup {Unreachable}
(* answers to the POST: merge_request never reads the body it is sent *)
PostResponses ==
    {[kind |-> "http", status |-> s, body |-> b] :
        s \in Statuses, b \in SeqsUpTo(Tokens, MaxPostBodyLen)}
        \cup {Unreachable}

(* urllib.request.urlopen: a status outside 2xx is raised as HTTPError, a  *)
(* failure to reach the server as URLError, otherwise the response object. *)
urlopen(resp) ==
    IF resp.kind = "unreachable" THEN "URLError"
    ELSE IF resp.status \in 200..299 THEN "response"
    ELSE "HTTPError"

(* ------------------------------ merge_request -------------------------- *)
MRReturnValueAlwaysCode(code) == Int_(code)

MRReturnValue(code) == IF code = 201 THEN Int_(0) ELSE Int_(code)

merge_request_outcome(resp) ==
    CASE urlopen(resp) = "response" ->
            [ret |-> MRReturnValue(resp.status), prints |-> <<>>]
      [] urlopen(resp) = "HTTPError" ->
            [ret |-> None,
             prints |-> <<P("The server couldn't fulfill the request."),
                          Msg("Error code: ", resp.status, "", "")>>]
      [] urlopen(resp) = "URLError" ->
            [ret |-> None,
             prints |-> <<P("We failed to reach a server."), P("Reason: ")>>]

(* ---------------------------- is_include_branch ------------------------ *)
CommitIsNotNone(json_data) == ~json_data.isnull

CommitIsNone(json_data) == json_data.isnull

(* json_data['commit'] : the exception the subscript raises, "" if none *)
Subscript(json_data) ==
    IF json_data.kind # "dict" THEN "TypeError"
    ELSE IF json_data.key # "\"commit\"" THEN "KeyError"
    ELSE ""

Returns(b) == [how |-> "return", ret |-> Bool_(b), prints |-> <<>>, exc |-> ""]
Raises(e) == [how |-> "raise", ret |-> Unset, prints |-> <<>>, exc |-> e]
Exits(msgs) == [how |-> "exit", ret |-> Unset, prints |-> msgs, exc |-> ""]

Not200ReturnsFalse(resp) == Returns(FALSE)

Not200(resp) == Exits(<<Msg("Error receiving data", resp.status, "", "")>>)

is_include_branch_outcome(resp) ==
    CASE urlopen(resp) = "response" ->
            IF resp.status = 200
            THEN LET json_data == json_loads(resp.body) IN
                 IF ~json_data.ok THEN Raises("JSONDecodeError")
                 ELSE IF Subscript(json_data) # "" THEN Raises(Subscript(json_data))
                 ELSE Returns(CommitIsNone(json_data))
            ELSE Not200(resp)
      [] urlopen(resp) = "HTTPError" ->
            Exits(<<Msg("Error. Response code: ", resp.status, "", "")>>)
      [] urlopen(resp) = "URLError" ->
            Exits(<<P("Error. We failed to reach a server:"), P("reason")>>)

(* ------------------------------ dispatcher ----------------------------- *)
ModeIncludeFirst(a) ==
    IF a.help THEN "help"
    ELSE IF a.isIncludeBranch.given THEN "isIncludeBranch"
    ELSE IF a.merge_request.given THEN "merge_request"
    ELSE "usage"

Mode(a) ==
    IF a.help THEN "help"
    ELSE IF a.merge_request.given THEN "merge_request"
    ELSE IF a.isIncludeBranch.given THEN "isIncludeBranch"
    ELSE "usage"

(* dict(enumerate(vals)).get(i) is None *)
ParamsGetIsNoneOneBased(vals, i) == ~(i \in DOMAIN vals)

ParamsGetIsNone(vals, i) == ~((i + 1) \in DOMAIN vals)

(* merge_request(...) != 0 *)
TruthyNotZero(v) == v.tag = "int" /\ v.val # 0

NotEqualZero(v) == v.tag # "int" \/ v.val # 0

(* not is_include_branch(...) *)
PyNot(v) == v.val = 0

SendTwice(calls, method) == calls \o <<method, method>>

Send(calls, method) == Append(calls, method)

UsageMain == P("usage: use_as_os_command.__doc__")
UsageMR == P("usage: merge_request.__doc__")
UsageInc == P("usage: is_include_branch.__doc__")
NotIncluded(a) ==
    Msg("Changes from %s branch the not included to %s branch.", 0,
        a.isIncludeBranch.vals[2], a.isIncludeBranch.vals[1])

Init ==
    /\ args \in [help : BOOLEAN, merge_request : OptLists, isIncludeBranch : OptLists]
    /\ pc = "start"
    /\ response = NoResponse
    /\ httpCalls = <<>>
    /\ printed = <<>>
    /\ retval = Unset
    /\ exitCode = NoExit
    /\ exitedIn = ""
    /\ traceback = ""

(* sys.exit(code) after printing msgs, raised in function fn *)
SysExit(msgs, code, fn) ==
    /\ printed' = printed \o msgs
    /\ exitCode' = code
    /\ exitedIn' = fn
    /\ pc' = "exited"

Help ==
    /\ pc = "start" /\ Mode(args) = "help"
    /\ SysExit(<<UsageMain>>, 0, "use_as_os_command")
    /\ UNCHANGED <<args, response, httpCalls, retval, traceback>>

Usage ==
    /\ pc = "start" /\ Mode(args) = "usage"
    /\ SysExit(<<UsageMain>>, 0, "use_as_os_command")
    /\ UNCHANGED <<args, response, httpCalls, retval, traceback>>

MergeRequestNoSource ==
    /\ pc = "start" /\ Mode(args) = "merge_request"
    /\ ParamsGetIsNone(args.merge_request.vals, 0)
    /\ SysExit(<<P("<source_branch> isn't specified"), UsageMR>>, 2, "use_as_os_command")
    /\ UNCHANGED <<args, response, httpCalls, retval, traceback>>

MergeRequestNoTarget ==
    /\ pc = "start" /\ Mode(args) = "merge_request"
    /\ ~ParamsGetIsNone(args.merge_request.vals, 0)
    /\ ParamsGetIsNone(args.merge_request.vals, 1)
    /\ SysExit(<<P("<target_branch> isn't specified"), UsageMR>>, 2, "use_as_os_command")
    /\ UNCHANGED <<args, response, httpCalls, retval, traceback>>

MergeRequestCall ==
    /\ pc = "start" /\ Mode(args) = "merge_request"
    /\ ~ParamsGetIsNone(args.merge_request.vals, 0)
    /\ ~ParamsGetIsNone(args.merge_request.vals, 1)
    /\ pc' = "merge_request"
    /\ UNCHANGED <<args, response, httpCalls, printed, retval, exitCode, exitedIn, traceback>>

merge_request ==
    /\ pc = "merge_request"
    /\ \E resp \in PostResponses :
         LET o == merge_request_outcome(resp) IN
         /\ response' = resp
         /\ httpCalls' = Send(httpCalls, "POST")
         /\ printed' = printed \o o.prints
         /\ retval' = o.ret
    /\ pc' = "merge_request_returned"
    /\ UNCHANGED <<args, exitCode, exitedIn, traceback>>

MergeRequestReturned ==
    /\ pc = "merge_request_returned"
    /\ IF NotEqualZero(retval)
       THEN SysExit(<<P("Merge request not created.")>>, 1, "use_as_os_command")
       ELSE SysExit(<<>>, 0, "end")
    /\ UNCHANGED <<args, response, httpCalls, retval, traceback>>

IncludeNoFrom ==
    /\ pc = "start" /\ Mode(args) = "isIncludeBranch"
    /\ ParamsGetIsNone(args.isIncludeBranch.vals, 0)
    /\ SysExit(<<P("<from_branch> isn't specified"), UsageInc>>, 2, "use_as_os_command")
    /\ UNCHANGED <<args, response, httpCalls, retval, traceback>>

IncludeNoTo ==
    /\ pc = "start" /\ Mode(args) = "isIncludeBranch"
    /\ ~ParamsGetIsNone(args.isIncludeBranch.vals, 0)
    /\ ParamsGetIsNone(args.isIncludeBranch.vals, 1)
    /\ SysExit(<<P("<to_branch> isn't specified"), UsageInc>>, 2, "use_as_os_command")
    /\ UNCHANGED <<args, response, httpCalls, retval, traceback>>

IncludeCall ==
    /\ pc = "start" /\ Mode(args) = "isIncludeBranch"
    /\ ~ParamsGetIsNone(args.isIncludeBranch.vals, 0)
    /\ ~ParamsGetIsNone(args.isIncludeBranch.vals, 1)
    /\ pc' = "is_include_branch"
    /\ UNCHANGED <<args, response, httpCalls, printed, retval, exitCode, exitedIn, traceback>>

is_include_branch ==
    /\ pc = "is_include_branch"
    /\ \E resp \in Responses :
         LET o == is_include_branch_outcome(resp) IN
         /\ response' = resp
         /\ httpCalls' = Send(httpCalls, "GET")
         /\ printed' = printed \o o.prints
         /\ retval' = o.ret
         /\ traceback' = o.exc
         /\ CASE o.how = "return" ->
                    pc' = "is_include_branch_returned" /\ UNCHANGED <<exitCode, exitedIn>>
              [] o.how = "exit" ->
                    pc' = "exited" /\ exitCode' = 1 /\ exitedIn' = "is_include_branch"
              [] o.how = "raise" ->
                    pc' = "exited" /\ exitCode' = 1 /\ exitedIn' = "uncaught"
    /\ UNCHANGED args

IncludeReturned ==
    /\ pc = "is_include_branch_returned"
    /\ IF PyNot(retval)
       THEN SysExit(<<NotIncluded(args)>>, 1, "use_as_os_command")
       ELSE SysExit(<<>>, 0, "end")
    /\ UNCHANGED <<args, response, httpCalls, retval, traceback>>

Next ==
    \/ Help
    \/ Usage
    \/ MergeRequestNoSource
    \/ MergeRequestNoTarget
    \/ MergeRequestCall
    \/ merge_request
    \/ MergeRequestReturned
    \/ IncludeNoFrom
    \/ IncludeNoTo
    \/ IncludeCall
    \/ is_include_branch
    \/ IncludeReturned

Spec == Init /\ [][Next]_vars

TypeOK ==
    /\ pc \in {"start", "merge_request", "merge_request_returned",
               "is_include_branch", "is_include_branch_returned", "exited"}
    /\ exitCode \in {NoExit, 0, 1, 2}
    /\ (pc = "exited") = (exitCode # NoExit)

(* ------------------------------ vocabulary ----------------------------- *)
Texts == {printed[i].text : i \in DOMAIN printed}
Answered == response.kind = "http"
MRRan == Mode(args) = "merge_request" /\ response.kind # "none"
IncRan == Mode(args) = "isIncludeBranch" /\ response.kind # "none"
Exited == pc = "exited"
NotIncludedText == "Changes from %s branch the not included to %s branch."
Doc == json_loads(response.body)
HasCommitField == Doc.ok /\ Doc.kind = "dict" /\ Doc.key = "\"commit\""
TransportFailure == response.kind = "unreachable" \/ (Answered /\ response.status \notin 200..299)

(* C1: merge-request mode with both branches given: the process exits 0    *)
(* when the POST is answered 201, and exits 1, merge_request having        *)
(* returned something that is not 0, when it is answered anything else.    *)
C1_ExitFollowsStatus ==
    (Exited /\ MRRan /\ Answered) =>
        /\ (response.status = 201 => exitCode = 0)
        /\ (response.status # 201 => (exitCode = 1 /\ retval # Int_(0)))

C1_Witness201 == Exited /\ MRRan /\ Answered /\ response.status = 201 /\ exitCode = 0
C1_WitnessOther2xx ==
    Exited /\ MRRan /\ Answered /\ response.status = 200 /\ exitCode = 1

(* C2: inclusion-check mode, GET answered 200 with a JSON object holding a *)
(* commit field: a null commit gives result true and exit 0, a non-null    *)
(* commit gives result false, the not-included message and exit 1.         *)
C2_CommitDecides ==
    (Exited /\ IncRan /\ Answered /\ response.status = 200 /\ HasCommitField) =>
        IF Doc.isnull
        THEN retval = Bool_(TRUE) /\ exitCode = 0 /\ printed = <<>>
        ELSE /\ retval = Bool_(FALSE) /\ exitCode = 1
             /\ printed = <<NotIncluded(args)>>

C2_WitnessNull ==
    Exited /\ IncRan /\ response.status = 200 /\ HasCommitField /\ Doc.isnull
C2_WitnessNonNull ==
    Exited /\ IncRan /\ response.status = 200 /\ HasCommitField /\ ~Doc.isnull
        /\ exitCode = 1

(* C3: when the compare GET is answered with a status other than 200,      *)
(* whatever the body, is_include_branch does not return: the process exits *)
(* 1 from inside it and the not-included message is never printed.         *)
C3_Non200IsFatal ==
    (IncRan /\ Answered /\ response.status # 200) =>
        /\ pc = "exited"
        /\ exitCode = 1
        /\ exitedIn = "is_include_branch"
        /\ retval = Unset
        /\ NotIncludedText \notin Texts

C3_Witness404 ==
    IncRan /\ Answered /\ response.status = 404 /\ response.body # <<>> /\ Exited
C3_Witness2xx ==
    IncRan /\ Answered /\ response.status = 201 /\ HasCommitField /\ Exited

(* C4 (as stated): exactly one HTTP call per invocation, whatever the      *)
(* command line.                                                           *)
C4_ExactlyOneCall == Exited => Len(httpCalls) = 1

(* C4 (amended): at most one HTTP call per invocation, never both a POST   *)
(* and a GET; a run makes exactly one call when a mode is selected with    *)
(* both required values, the POST in merge-request mode and the GET in     *)
(* inclusion-check mode, and none on help, usage and missing-value runs.   *)
BothGiven(l) == l.given /\ Len(l.vals) >= 2
C4_AtMostOneCall ==
    /\ Len(httpCalls) <= 1
    /\ Exited =>
        /\ (Mode(args) = "merge_request" /\ BothGiven(args.merge_request))
              => httpCalls = <<"POST">>
        /\ (Mode(args) = "isIncludeBranch" /\ BothGiven(args.isIncludeBranch))
              => httpCalls = <<"GET">>
        /\ (Mode(args) \in {"help", "usage"}) => httpCalls = <<>>
        /\ (Mode(args) = "merge_request" /\ ~BothGiven(args.merge_request))
              => httpCalls = <<>>
        /\ (Mode(args) = "isIncludeBranch" /\ ~BothGiven(args.isIncludeBranch))
              => httpCalls = <<>>

C4_WitnessOne == Exited /\ httpCalls = <<"GET">> /\ exitCode = 1 /\ retval = Unset
C4_WitnessNone == Exited /\ httpCalls = <<>> /\ Mode(args) = "merge_request"

(* C5: a missing required value ends the run with exit code 2 before any   *)
(* HTTP request: no value names the source (from) branch as missing, one   *)
(* value names the target (to) branch as missing.                          *)
C5_MissingValueExits2 ==
    Exited =>
        /\ (Mode(args) = "merge_request" /\ Len(args.merge_request.vals) = 0) =>
              /\ exitCode = 2 /\ httpCalls = <<>>
              /\ printed = <<P("<source_branch> isn't specified"), UsageMR>>
        /\ (Mode(args) = "merge_request" /\ Len(args.merge_request.vals) = 1) =>
              /\ exitCode = 2 /\ httpCalls = <<>>
              /\ printed = <<P("<target_branch> isn't specified"), UsageMR>>
        /\ (Mode(args) = "isIncludeBranch" /\ Len(args.isIncludeBranch.vals) = 0) =>
              /\ exitCode = 2 /\ httpCalls = <<>>
              /\ printed = <<P("<from_branch> isn't specified"), UsageInc>>
        /\ (Mode(args) = "isIncludeBranch" /\ Len(args.isIncludeBranch.vals) = 1) =>
              /\ exitCode = 2 /\ httpCalls = <<>>
              /\ printed = <<P("<to_branch> isn't specified"), UsageInc>>

C5_WitnessOneValue ==
    Exited /\ ~args.help /\ args.merge_request.given
        /\ Len(args.merge_request.vals) = 1 /\ exitCode = 2
C5_WitnessIncOneValue ==
    Exited /\ ~args.help /\ ~args.merge_request.given /\ args.isIncludeBranch.given
        /\ Len(args.isIncludeBranch.vals) = 1 /\ exitCode = 2

(* C6: first match wins in the order help, merge request, inclusion check, *)
(* usage: help prints usage and exits 0 with no HTTP call even beside a    *)
(* mode flag; with both mode flags only the merge request runs; with no    *)
(* flag at all usage is printed and the exit code is 0.                    *)
C6_FirstMatchWins ==
    /\ args.help =>
          /\ httpCalls = <<>>
          /\ pc \in {"start", "exited"}
          /\ Exited => (printed = <<UsageMain>> /\ exitCode = 0)
    /\ (~args.help /\ args.merge_request.given /\ args.isIncludeBranch.given) =>
          /\ "GET" \notin {httpCalls[i] : i \in DOMAIN httpCalls}
          /\ pc \notin {"is_include_branch", "is_include_branch_returned"}
          /\ {"<from_branch> isn't specified", "<to_branch> isn't specified",
              NotIncludedText} \cap Texts = {}
          /\ (Exited /\ BothGiven(args.merge_request)) => httpCalls = <<"POST">>
    /\ (~args.help /\ ~args.merge_request.given /\ ~args.isIncludeBranch.given) =>
          /\ httpCalls = <<>>
          /\ pc \in {"start", "exited"}
          /\ Exited => (printed = <<UsageMain>> /\ exitCode = 0)

C6_WitnessBothModes ==
    Exited /\ ~args.help /\ BothGiven(args.merge_request)
        /\ BothGiven(args.isIncludeBranch) /\ httpCalls = <<"POST">>
C6_WitnessHelpWithMode ==
    Exited /\ args.help /\ BothGiven(args.merge_request) /\ exitCode = 0

(* C7: a transport-level failure of the HTTP call (HTTPError raised by the *)
(* HTTP layer, or the server unreachable) ends the run with exit code 1:   *)
(* merge_request returns a value that is not 0 and the dispatcher exits 1; *)
(* the inclusion checker exits 1 itself.                                   *)
C7_TransportFailureExits1 ==
    /\ (MRRan /\ TransportFailure) =>
          /\ retval # Int_(0)
          /\ pc \in {"merge_request_returned", "exited"}
          /\ Exited => (exitCode = 1 /\ exitedIn = "use_as_os_command")
    /\ (IncRan /\ TransportFailure) =>
          (Exited /\ exitCode = 1 /\ exitedIn = "is_include_branch")

C7_WitnessMRUnreachable ==
    Exited /\ MRRan /\ response.kind = "unreachable" /\ exitCode = 1
C7_WitnessIncHTTPError ==
    Exited /\ IncRan /\ Answered /\ response.status = 500 /\ exitCode = 1

(* C8: for every status other than 201 that the server gives to the POST   *)
(* (other 2xx as well as 3xx/4xx/5xx), merge_request returns that numeric  *)
(* status code.                                                            *)
C8_ReturnsStatusCode ==
    (MRRan /\ Answered /\ response.status # 201) => retval = Int_(response.status)

(* C9: compare GET answered 200 with a JSON object that has no commit      *)
(* field: is_include_branch returns true and the process exits 0.          *)
C9_AbsentCommitIsTrue ==
    (Exited /\ IncRan /\ Answered /\ response.status = 200
        /\ Doc.ok /\ Doc.kind = "dict" /\ Doc.key # "\"commit\"") =>
            (retval = Bool_(TRUE) /\ exitCode = 0)

(* C10: every run that ends with a non-zero exit code has printed a        *)
(* diagnostic message of the program before it exits.                      *)
C10_DiagnosticBeforeFailure ==
    (Exited /\ exitCode # 0) => printed # <<>>
====
